---- MODULE Spec2Model ----
(***************************************************************************)
(* Gyroskop bot: the ordering-window state machine of                      *)
(* internal/bot/bot.go over the record store of                            *)
(* internal/database/database.go.                                          *)
(*                                                                         *)
(* Threads of the program:                                                 *)
(*   - the Run loop (bot.go:38-64): startup load, then one inbound update  *)
(*     at a time, each handled synchronously;                              *)
(*   - the background expiry checker (bot.go:935-950), one goroutine;      *)
(*   - one goroutine per `go b.autoCloseGyroskop(...)` (bot.go:923, 960,   *)
(*     980), each running closeGyroskop (bot.go:456-476) step by step.     *)
(* No lock guards the cache or the store, so the steps of the goroutines   *)
(* interleave freely with the handlers.                                    *)
(*                                                                         *)
(* Time is counted in minutes and sampled every TimeStep minutes.          *)
(***************************************************************************)
EXTENDS Integers, Sequences, FiniteSets, Bags, TLC

----------------------------------------------------------------------------
(* Bounds of the model *)

MaxWindows == 2          \* rows the gyroskops table may hold
MaxClosers == 2          \* autoCloseGyroskop goroutines in flight
MaxSteps   == 2          \* how often the clock is advanced
TimeStep   == 15         \* minutes between two samples of the clock
MaxUpdates == 3          \* inbound updates handled, earlier runs of the bot included
MaxSummaries == 2        \* final summaries counted per window
MaxOptions == 2          \* options in a list handed to the matcher
MaxRows == 5             \* rows the orders table may hold when it is modelled row by row

(* Program constants *)

DefaultMinutes == 15     \* bot.go:364  time.Now().Add(15 * time.Minute)
MinutesPerHour == 60     \* bot.go:389  time.Hour

Groups == {1, 2}         \* chat ids of group chats
Users  == {1, 2}         \* Telegram user ids
OtherMsg == 99           \* id of a chat message that is no gyroskop message

\* a private chat (message.Chat.IsGroup() and IsSuperGroup() are false), and
\* the chats a message can come from
PrivateChat == 3
Chats == Groups \cup {PrivateChat}

----------------------------------------------------------------------------
(* database.Gyroskop (database.go:19-29); Name and FoodOptions are not read *)
(* by bot.go, which offers the two fixed kinds meat and veggie.             *)

NoG == [id |-> 0, chat |-> 0, by |-> 0, msg |-> 0, deadline |-> 0, open |-> FALSE,
        name |-> "", options |-> <<>>]

(* A *database.Gyroskop pointer: nil, a heap object that nothing mutates any *)
(* more ("obj", held by value), or the address of a range-loop variable:     *)
(* with go 1.21 (database.go:421) `for _, gyroskop := range` has ONE variable *)
(* per loop, so &gyroskop is the same address in every iteration.            *)
NilPtr  == [k |-> "nil",  g |-> NoG]
LoadPtr == [k |-> "load", g |-> NoG]
TickPtr == [k |-> "tick", g |-> NoG]
Obj(g)  == [k |-> "obj",  g |-> g]

(* One row of the orders table, as bot.go reads it: QuantityMeat and         *)
(* QuantityVeggie; has = the row exists.                                     *)
NoRow == [has |-> FALSE, m |-> 0, v |-> 0]

VARIABLES
    now,        \* time.Now(), in minutes
    steps,      \* how often the clock was advanced
    db,         \* gyroskops table: sequence of rows, index = id (SERIAL)
    orders,     \* orders table: [window id, user id] -> row
    nextMsg,    \* next message id the chat transport assigns
    cache,      \* b.activeGyroskops: chat id -> pointer
    pc,         \* Run: "start" | "load" | "serve" | "returned"
    handled,    \* inbound updates handled so far
    loadRows,   \* loadActiveGyroskops: rows still to iterate
    loadNow,    \* loadActiveGyroskops: its `now`
    loadVar,    \* loadActiveGyroskops: the range-loop variable
    tickPc,     \* backgroundExpiryChecker: "idle" | "rows" | "done"
    tickRows,   \* checkExpiredGyroskops: rows still to iterate (second loop)
    tickNow,    \* checkExpiredGyroskops: its `now`
    scanned,    \* history of the running tick: ids its first loop started a close for
    stopChan,   \* b.stopChan: "open" | "closed"
    tickVar,    \* checkExpiredGyroskops: the range-loop variable (second loop)
    closers,    \* bag of running closeGyroskop goroutines
    summaries,  \* window id -> final summaries its group was sent since it was last opened
    reply,      \* what the last handled update was answered with
    call,       \* the parser or matcher last applied alone: arguments and result
    shown       \* the status or final summary last sent: its rows and totals

vars == <<now, steps, db, orders, nextMsg, cache, pc, handled, loadRows, loadNow, loadVar,
          tickPc, tickRows, tickNow, scanned, stopChan, tickVar, closers, summaries, reply, call,
          shown>>

WinIds == 1..MaxWindows

\* no parser or matcher applied yet
NoCall == [fn |-> "none", input |-> <<>>, options |-> <<>>, at |-> 0,
           ok |-> FALSE, out |-> <<>>, t |-> 0, err |-> ""]

----------------------------------------------------------------------------
(* Strings are sequences of one-character strings, so that the parsers work *)
(* on them character by character as the Go code does.                      *)

Digits == {"0", "1", "2", "3", "4", "5", "6", "7", "8", "9"}

DigitVal(c) ==
    CASE c = "0" -> 0 [] c = "1" -> 1 [] c = "2" -> 2 [] c = "3" -> 3 [] c = "4" -> 4
      [] c = "5" -> 5 [] c = "6" -> 6 [] c = "7" -> 7 [] c = "8" -> 8 [] c = "9" -> 9

\* value of a non-empty all-digit string
RECURSIVE DecVal(_)
DecVal(s) ==
    IF Len(s) = 0 THEN 0
    ELSE 10 * DecVal(SubSeq(s, 1, Len(s) - 1)) + DigitVal(s[Len(s)])

AllDigits(s) == \A i \in 1..Len(s) : s[i] \in Digits

\* strconv.Atoi: an optional sign, then one or more digits, nothing else
Atoi(s) ==
    LET signed == Len(s) > 0 /\ s[1] \in {"+", "-"}
        body   == IF signed THEN SubSeq(s, 2, Len(s)) ELSE s
    IN  IF Len(body) = 0 \/ ~AllDigits(body)
        THEN [ok |-> FALSE, val |-> 0]
        ELSE [ok |-> TRUE,
              val |-> IF signed /\ s[1] = "-" THEN 0 - DecVal(body) ELSE DecVal(body)]

\* strings.ToLower and Unicode case folding of one character, for the
\* letters that occur
UpperCase == <<"A", "B", "C", "D", "E", "F", "G", "H", "I", "J", "K", "L", "M",
               "N", "O", "P", "Q", "R", "S", "T", "U", "V", "W", "X", "Y", "Z", "Ä">>
LowerCase == <<"a", "b", "c", "d", "e", "f", "g", "h", "i", "j", "k", "l", "m",
               "n", "o", "p", "q", "r", "s", "t", "u", "v", "w", "x", "y", "z", "ä">>

FoldChar(c) ==
    IF \E i \in 1..Len(UpperCase) : UpperCase[i] = c
    THEN LowerCase[CHOOSE i \in 1..Len(UpperCase) : UpperCase[i] = c]
    ELSE c

Fold(s) == [i \in 1..Len(s) |-> FoldChar(s[i])]

\* strings.TrimSpace
RECURSIVE TrimSpace(_)
TrimSpace(s) ==
    IF Len(s) = 0 THEN s
    ELSE IF s[1] = " " THEN TrimSpace(Tail(s))
    ELSE IF s[Len(s)] = " " THEN TrimSpace(SubSeq(s, 1, Len(s) - 1))
    ELSE s

\* length of the longest all-digit prefix
RECURSIVE DigitPrefix(_)
DigitPrefix(s) ==
    IF Len(s) = 0 \/ s[1] \notin Digits THEN 0 ELSE 1 + DigitPrefix(Tail(s))

----------------------------------------------------------------------------
(* parseDeadline (bot.go:359-424).  `now` counts minutes from a midnight of *)
(* Europe/Berlin, so the civil time of day of an instant t is t % 1440.     *)

MinuteUnits == {<<"m", "i", "n">>, <<"m">>}
HourUnits   == {<<"h">>, <<"h", "o", "u", "r">>, <<"h", "o", "u", "r", "s">>}
MinutesPerDay == 1440

\* durationRegex ^(\d+)(min|m|h|hour|hours)$ : the groups, when it matches
DurationMatch(s) ==
    LET n == DigitPrefix(s)
        unit == SubSeq(s, n + 1, Len(s))
    IN  [ok |-> n > 0 /\ unit \in (MinuteUnits \cup HourUnits),
         digits |-> SubSeq(s, 1, n), unit |-> unit]

\* timeRegex ^\d{1,2}:\d{2}$ and time.ParseInLocation("15:04", ...)
ClockMatch(s) ==
    LET n == DigitPrefix(s)
        rest == SubSeq(s, n + 1, Len(s))
        shape == n \in {1, 2} /\ Len(rest) = 3 /\ rest[1] = ":"
                 /\ rest[2] \in Digits /\ rest[3] \in Digits
        hour == IF shape THEN DecVal(SubSeq(s, 1, n)) ELSE 0
        min  == IF shape THEN DecVal(SubSeq(rest, 2, 3)) ELSE 0
    IN  [shape |-> shape, valid |-> shape /\ hour < 24 /\ min < 60,
         hour |-> hour, min |-> min]

\* a parseDeadline that answers every malformed input with the default
ParseDeadlineOrDefault(input, t) ==
    LET s == TrimSpace(input)
        dur == DurationMatch(s)
        clock == ClockMatch(s)
        unit == Fold(dur.unit)
        duration == IF unit \in MinuteUnits THEN DecVal(dur.digits)
                    ELSE DecVal(dur.digits) * MinutesPerHour
        today == (t - (t % MinutesPerDay)) + clock.hour * MinutesPerHour + clock.min
    IN  IF dur.ok /\ duration # 0 THEN [ok |-> TRUE, t |-> t + duration, err |-> ""]
        ELSE IF ~dur.ok /\ clock.valid
        THEN [ok |-> TRUE, t |-> IF today < t THEN today + MinutesPerDay ELSE today,
              err |-> ""]
        ELSE [ok |-> TRUE, t |-> t + DefaultMinutes, err |-> ""]

ParseDeadline(input, t) ==
    LET s == TrimSpace(input)
        dur == DurationMatch(s)
        clock == ClockMatch(s)
        unit == Fold(dur.unit)
        duration == IF unit \in MinuteUnits THEN DecVal(dur.digits)
                    ELSE DecVal(dur.digits) * MinutesPerHour
        today == (t - (t % MinutesPerDay)) + clock.hour * MinutesPerHour + clock.min
    IN  IF Len(s) = 0 THEN [ok |-> TRUE, t |-> t + DefaultMinutes, err |-> ""]
        ELSE IF dur.ok THEN
            IF duration = 0 THEN [ok |-> FALSE, t |-> 0, err |-> "invalid duration"]
            ELSE [ok |-> TRUE, t |-> t + duration, err |-> ""]
        ELSE IF clock.shape THEN
            IF ~clock.valid THEN [ok |-> FALSE, t |-> 0, err |-> "out of range"]
            ELSE [ok |-> TRUE, t |-> IF today < t THEN today + MinutesPerDay ELSE today,
                  err |-> ""]
        ELSE [ok |-> FALSE, t |-> 0, err |-> "invalid format"]

----------------------------------------------------------------------------
(* The record store (database.go).  Every operation may also fail; the      *)
(* caller chooses, these operators are the successful outcome.              *)

\* the defaults of CreateGyroskop (database.go:123-130)
DefaultName == "Gyros"
DefaultOptions == <<"Fleisch", "Vegetarisch">>

\* a CreateGyroskop without the defaults of database.go:123-130
CreateGyroskopAsGiven(d, chatID, createdBy, name, foodOptions, deadline) ==
    Append(d, [id |-> Len(d) + 1, chat |-> chatID, by |-> createdBy, msg |-> 0,
               deadline |-> deadline, open |-> TRUE,
               name |-> name, options |-> foodOptions])

\* CreateGyroskop (database.go:121-158): the row INSERTed, id from SERIAL,
\* the defaults standing in for an empty name and an empty option list
CreateGyroskop(d, chatID, createdBy, name, foodOptions, deadline) ==
    Append(d, [id |-> Len(d) + 1, chat |-> chatID, by |-> createdBy, msg |-> 0,
               deadline |-> deadline, open |-> TRUE,
               name |-> IF name = "" THEN DefaultName ELSE name,
               options |-> IF Len(foodOptions) = 0 THEN DefaultOptions
                           ELSE foodOptions])

\* the characters of source occur in target, in this order
RECURSIVE InOrder(_, _)
InOrder(source, target) ==
    IF Len(source) = 0 THEN TRUE
    ELSE IF \A i \in 1..Len(target) : target[i] # source[1] THEN FALSE
    ELSE LET i == CHOOSE k \in 1..Len(target) :
                     /\ target[k] = source[1]
                     /\ \A j \in 1..(k - 1) : target[j] # source[1]
         IN  InOrder(Tail(source), SubSeq(target, i + 1, Len(target)))

\* fuzzy.FindFold of github.com/lithammer/fuzzysearch v1.1.8, called at
\* database.go:391: the targets the folded source matches, in the order of
\* the targets; a source longer than the target never matches
MatchFold(source, target) ==
    /\ Len(source) <= Len(target)
    /\ \/ Fold(source) = Fold(target)
       \/ InOrder(Fold(source), Fold(target))

FindFold(source, targets) ==
    SelectSeq(targets, LAMBDA target : MatchFold(source, target))

\* a FuzzyMatchOption that hands back what the user wrote
FuzzyMatchOptionEcho(input, options) ==
    LET cleanedInput == TrimSpace(input)
        results == FindFold(cleanedInput, options)
    IN  IF Len(cleanedInput) = 0 THEN [found |-> FALSE, option |-> <<>>]
        ELSE IF Len(results) >= 1 THEN [found |-> TRUE, option |-> cleanedInput]
        ELSE [found |-> FALSE, option |-> <<>>]

\* FuzzyMatchOption (database.go:386-397)
FuzzyMatchOption(input, options) ==
    LET cleanedInput == TrimSpace(input)
        results == FindFold(cleanedInput, options)
    IN  IF Len(cleanedInput) = 0 THEN [found |-> FALSE, option |-> <<>>]
        ELSE IF Len(results) >= 1 THEN [found |-> TRUE, option |-> results[1]]
        ELSE [found |-> FALSE, option |-> <<>>]

\* UpdateGyroskopMessageID (database.go:161-167)
UpdateGyroskopMessageID(d, id, messageID) ==
    IF id \in DOMAIN d THEN [d EXCEPT ![id].msg = messageID] ELSE d

\* GetActiveGyroskop (database.go:169-189): WHERE chat_id = $1 AND is_open =
\* true (QueryRow takes one row; none is sql.ErrNoRows)
GetActiveGyroskop(d, chatID) ==
    {d[i] : i \in {j \in DOMAIN d : d[j].chat = chatID /\ d[j].open}}

\* a GetAllActiveGyroskops without the WHERE clause
GetAllGyroskops(d) == {d[i] : i \in DOMAIN d}

\* GetAllActiveGyroskops (database.go:192-219): WHERE is_open = true
GetAllActiveGyroskops(d) == {d[i] : i \in {j \in DOMAIN d : d[j].open}}

\* CloseGyroskop (database.go:222-228): an UPDATE, succeeds on any id
CloseGyroskop(d, id) ==
    IF id \in DOMAIN d THEN [d EXCEPT ![id].open = FALSE] ELSE d

\* a ReopenGyroskop that sets is_open but leaves the deadline column as it was
ReopenKeepingDeadline(d, id, deadline) ==
    IF id \in DOMAIN d THEN [d EXCEPT ![id].open = TRUE] ELSE d

\* ReopenGyroskop (database.go:353-359)
ReopenGyroskop(d, id, deadline) ==
    IF id \in DOMAIN d THEN [d EXCEPT ![id].open = TRUE, ![id].deadline = deadline]
    ELSE d

\* GetGyroskopByMessageID (database.go:331-350): the rows of the chat with
\* that message id (QueryRow takes one; none is sql.ErrNoRows)
GetGyroskopByMessageID(d, chatID, messageID) ==
    {d[i] : i \in {j \in DOMAIN d : d[j].chat = chatID /\ d[j].msg = messageID}}

\* an AddOrUpdateOrder whose conflict target is the window alone: the row the
\* window already has, whoever owns it, takes the quantities
AddOrUpdateOrderPerWindow(o, gyroskopID, userID, meat, veggie) ==
    LET owners == {x \in Users : o[gyroskopID, x].has}
        target == IF owners = {} THEN userID ELSE CHOOSE x \in owners : TRUE
    IN  [o EXCEPT ![gyroskopID, target] = [has |-> TRUE, m |-> meat, v |-> veggie]]

\* AddOrUpdateOrder (database.go:231-250): INSERT ... ON CONFLICT
\* (gyroskop_id, user_id) DO UPDATE
AddOrUpdateOrder(o, gyroskopID, userID, meat, veggie) ==
    [o EXCEPT ![gyroskopID, userID] = [has |-> TRUE, m |-> meat, v |-> veggie]]

\* The orders table row by row (database.go:95-107): a sequence of rows, each
\* with its window, its user, the display name and the quantities.
\* an INSERT into a table without UNIQUE(gyroskop_id, user_id) and without
\* the ON CONFLICT clause: the row is added
InsertRow(table, row) == Append(table, row)

\* the INSERT ... ON CONFLICT (gyroskop_id, user_id) DO UPDATE of
\* database.go:237-248: the row with this window and user takes the display
\* name and the quantities, and the row is added when there is none
InsertOrUpdateRow(table, row) ==
    IF \E i \in 1..Len(table) :
          table[i].gyroskop = row.gyroskop /\ table[i].user = row.user
    THEN [i \in 1..Len(table) |->
             IF table[i].gyroskop = row.gyroskop /\ table[i].user = row.user
             THEN row ELSE table[i]]
    ELSE Append(table, row)

\* RemoveOrder (database.go:300-306): UPDATE ... SET quantities = '{}'
RemoveOrder(o, gyroskopID, userID) ==
    IF o[gyroskopID, userID].has
    THEN [o EXCEPT ![gyroskopID, userID] = [has |-> TRUE, m |-> 0, v |-> 0]]
    ELSE o

\* a GetOrdersByGyroskop without the test for a quantity > 0 of
\* database.go:281-292: every row of the window
GetOrdersByGyroskopUnfiltered(o, gyroskopID) ==
    [u \in {x \in Users : gyroskopID \in WinIds /\ o[gyroskopID, x].has}
        |-> <<o[gyroskopID, u].m, o[gyroskopID, u].v>>]

\* GetOrdersByGyroskop (database.go:253-297): the rows of the window that
\* have some quantity > 0, as user id -> <<meat, veggie>>
GetOrdersByGyroskop(o, gyroskopID) ==
    [u \in {x \in Users : /\ gyroskopID \in WinIds
                          /\ o[gyroskopID, x].has
                          /\ (o[gyroskopID, x].m > 0 \/ o[gyroskopID, x].v > 0)}
        |-> <<o[gyroskopID, u].m, o[gyroskopID, u].v>>]

----------------------------------------------------------------------------
(* The texts of a status and of a final summary (bot.go:607-702): the lines, *)
(* one per order handed in, and the totals line, or the no-orders message.  *)

RECURSIVE SumMeat(_, _)
SumMeat(rows, users) ==
    IF users = {} THEN 0
    ELSE LET u == CHOOSE x \in users : TRUE
         IN  rows[u][1] + SumMeat(rows, users \ {u})

RECURSIVE SumVeggie(_, _)
SumVeggie(rows, users) ==
    IF users = {} THEN 0
    ELSE LET u == CHOOSE x \in users : TRUE
         IN  rows[u][2] + SumVeggie(rows, users \ {u})

NoReport == [kind |-> "none", noOrders |-> FALSE, lines |-> [u \in {} |-> <<0, 0>>],
             totalMeat |-> 0, totalVeggie |-> 0, totalGyros |-> 0]

\* the body both texts share: bot.go:617-652 and bot.go:666-701
FormatOrders(kind, rows) ==
    IF DOMAIN rows = {}
    THEN [NoReport EXCEPT !.kind = kind, !.noOrders = TRUE]
    ELSE LET totalMeat == SumMeat(rows, DOMAIN rows)
             totalVeggie == SumVeggie(rows, DOMAIN rows)
         IN  [kind |-> kind, noOrders |-> FALSE, lines |-> rows,
              totalMeat |-> totalMeat, totalVeggie |-> totalVeggie,
              totalGyros |-> totalMeat + totalVeggie]

\* formatCurrentStatus (bot.go:607-653)
FormatCurrentStatus(rows) == FormatOrders("status", rows)

\* formatOrderSummary (bot.go:656-702)
FormatOrderSummary(rows) == FormatOrders("summary", rows)

----------------------------------------------------------------------------
(* Pointers and goroutines *)

\* *p for a pointer p
Deref(p) ==
    CASE p.k = "load" -> loadVar
      [] p.k = "tick" -> tickVar
      [] OTHER -> p.g

\* Once a range loop has ended nothing assigns its variable any more: a
\* pointer to it is from then on a pointer to an immutable object.
Settle(p, kind, g) == IF p.k = kind THEN Obj(g) ELSE p

EmptyOrders == [u \in {} |-> <<0, 0>>]

\* a goroutine started by `go b.autoCloseGyroskop(p)`, about to run
\* closeGyroskop(p) (bot.go:450-453)
NewCloser(p) == [ptr |-> p, at |-> "orders", sid |-> 0, snap |-> EmptyOrders]

SettleCloser(c, kind, g) == [c EXCEPT !.ptr = Settle(c.ptr, kind, g)]

Running == BagCardinality(closers)

----------------------------------------------------------------------------
(* The state after New (bot.go:23-35): an empty cache.  The store holds what *)
(* an earlier run of the bot left: per group no window, or one open window   *)
(* whose deadline passed while the bot was down, or one that is still live.  *)
(* Each of these windows took the earlier run one update and one message.    *)

PriorKinds == {"none", "expired", "live"}
PriorBy(g) == g          \* the creator of the window an earlier run opened in g

PriorDeadline(kind) == IF kind = "expired" THEN 0 - TimeStep ELSE TimeStep

RECURSIVE PriorRows(_, _)
PriorRows(kinds, g) ==
    IF g \notin Groups THEN <<>>
    ELSE LET rest == PriorRows(kinds, g + 1)
         IN  IF kinds[g] = "none" THEN rest
             ELSE <<[id |-> 0, chat |-> g, by |-> PriorBy(g), msg |-> 0,
                     deadline |-> PriorDeadline(kinds[g]), open |-> TRUE,
                     name |-> DefaultName, options |-> DefaultOptions]>> \o rest

Renumber(rows) == [i \in 1..Len(rows) |-> [rows[i] EXCEPT !.id = i, !.msg = i]]

Init ==
    /\ now = 0
    /\ steps = 0
    /\ \E kinds \in [Groups -> PriorKinds] :
          /\ Len(PriorRows(kinds, 1)) <= MaxWindows
          /\ db = Renumber(PriorRows(kinds, 1))
    /\ nextMsg = Len(db) + 1
    /\ handled = Len(db)
    /\ orders = [w \in WinIds, u \in Users |-> NoRow]
    /\ cache = [g \in Chats |-> NilPtr]
    /\ pc = "start"
    /\ loadRows = {}
    /\ loadNow = 0
    /\ loadVar = NoG
    /\ tickPc = "idle"
    /\ tickRows = {}
    /\ tickNow = 0
    /\ scanned = {}
    /\ stopChan = "open"
    /\ tickVar = NoG
    /\ closers = EmptyBag
    /\ summaries = [w \in WinIds |-> 0]
    /\ reply = "none"
    /\ call = NoCall
    /\ shown = NoReport

----------------------------------------------------------------------------
(* The clock.  A loop over rows in memory (bot.go:919, 971) takes no time    *)
(* at the scale of TimeStep; everything else may take any time.             *)

Advance ==
    /\ steps < MaxSteps
    /\ pc # "load"
    /\ tickPc = "idle"
    /\ now' = now + TimeStep
    /\ steps' = steps + 1
    /\ UNCHANGED <<call, shown, db, orders, nextMsg, cache, pc, handled, loadRows, loadNow, loadVar,
                   tickPc, tickRows, tickNow, scanned, stopChan, tickVar, closers, summaries, reply>>

----------------------------------------------------------------------------
(* loadActiveGyroskops (bot.go:911-932), called by Run before anything else *)

\* the query (ok: it succeeds), and `now := time.Now()`
LoadQuery(ok) ==
    /\ pc = "start"
    /\ LET rows == IF ok THEN GetAllActiveGyroskops(db) ELSE {}
       IN  /\ loadRows' = rows
           /\ pc' = IF rows = {} THEN "serve" ELSE "load"
    /\ loadNow' = now
    /\ UNCHANGED <<call, shown, now, steps, db, orders, nextMsg, cache, handled, loadVar,
                   tickPc, tickRows, tickNow, scanned, stopChan, tickVar, closers, summaries, reply>>

\* one iteration of `for _, gyroskop := range gyroskops`
LoadRow ==
    /\ pc = "load"
    /\ \E r \in loadRows :
          LET last == loadRows = {r}
              expired == r.deadline < loadNow
              cache1 == IF expired THEN cache ELSE [cache EXCEPT ![r.chat] = LoadPtr]
              bag1 == IF expired THEN closers (+) SetToBag({NewCloser(LoadPtr)})
                      ELSE closers
          IN  /\ expired => Running < MaxClosers
              /\ loadRows' = loadRows \ {r}
              /\ loadVar' = IF last THEN NoG ELSE r
              /\ pc' = IF last THEN "serve" ELSE "load"
              /\ cache' = IF last THEN [g \in Chats |-> Settle(cache1[g], "load", r)]
                          ELSE cache1
              /\ closers' = IF last THEN BagOfAll(LAMBDA c : SettleCloser(c, "load", r), bag1)
                            ELSE bag1
    /\ UNCHANGED <<call, shown, now, steps, db, orders, nextMsg, handled, loadNow,
                   tickPc, tickRows, tickNow, scanned, stopChan, tickVar, summaries, reply>>

----------------------------------------------------------------------------
(* checkExpiredGyroskops (bot.go:953-983), run by backgroundExpiryChecker   *)
(* (bot.go:935-950) on every tick of its ticker.  Run starts the checker    *)
(* after loadActiveGyroskops has returned (bot.go:40-43).                   *)

\* a first loop that closes only the expired windows of the first user
ExpiredCachedOfOne(t) ==
    {g \in Groups : /\ cache[g].k # "nil" /\ Deref(cache[g]).deadline < t
                    /\ Deref(cache[g]).by = 1}

\* the pointers the first loop (bot.go:957-962) passes to autoCloseGyroskop
ExpiredCached(t) ==
    {g \in Groups : cache[g].k # "nil" /\ Deref(cache[g]).deadline < t}

\* one goroutine per expired entry (two entries may hold the same pointer)
RECURSIVE Spawned(_)
Spawned(gs) ==
    IF gs = {} THEN EmptyBag
    ELSE LET g == CHOOSE x \in gs : TRUE
         IN  SetToBag({NewCloser(cache[g])}) (+) Spawned(gs \ {g})

\* `now := time.Now()`, the loop over the cache, and the query of the store
\* (ok: it succeeds)
TickScan(ok) ==
    /\ pc \in {"serve", "returned"}
    /\ tickPc = "idle"
    /\ LET hit == ExpiredCached(now)
           spawned == closers (+) Spawned(hit)
           rows == IF ok THEN GetAllActiveGyroskops(db) ELSE {}
       IN  /\ Running + Cardinality(hit) <= MaxClosers
           /\ closers' = spawned
           /\ tickRows' = rows
           /\ tickPc' = IF rows = {} THEN "idle" ELSE "rows"
           /\ tickNow' = IF rows = {} THEN 0 ELSE now
           /\ scanned' = IF rows = {} THEN {} ELSE {Deref(cache[g]).id : g \in hit}
    /\ UNCHANGED <<call, shown, now, steps, db, orders, nextMsg, cache, pc, handled, loadRows, loadNow,
                   loadVar, stopChan, tickVar, summaries, reply>>

\* one iteration of the second loop (bot.go:971-982)
TickRow ==
    /\ tickPc = "rows"
    /\ \E r \in tickRows :
          LET last == tickRows = {r}
              cached == cache[r.chat]
              spawn == /\ r.deadline < tickNow
                       /\ ~(cached.k # "nil" /\ Deref(cached).id = r.id)
              bag1 == IF spawn THEN closers (+) SetToBag({NewCloser(TickPtr)})
                      ELSE closers
          IN  /\ spawn => Running < MaxClosers
              /\ tickRows' = tickRows \ {r}
              /\ tickVar' = IF last THEN NoG ELSE r
              /\ tickPc' = IF last THEN "idle" ELSE "rows"
              /\ tickNow' = IF last THEN 0 ELSE tickNow
              /\ scanned' = IF last THEN {} ELSE scanned
              /\ closers' = IF last THEN BagOfAll(LAMBDA c : SettleCloser(c, "tick", r), bag1)
                            ELSE bag1
    /\ UNCHANGED <<call, shown, now, steps, db, orders, nextMsg, cache, pc, handled, loadRows, loadNow,
                   loadVar, stopChan, summaries, reply>>

----------------------------------------------------------------------------
(* closeGyroskop (bot.go:456-476) as run by an autoCloseGyroskop goroutine: *)
(* each store call is one step, and each reads gyroskop.ID / .ChatID        *)
(* through the pointer at the time it runs.                                 *)

\* the count of summaries saturates at MaxSummaries ("that many or more")
Counted(n) == IF n < MaxSummaries THEN n + 1 ELSE n

Replace(c, d) == (closers (-) SetToBag({c})) (+) SetToBag({d})

\* orders, err := b.db.GetOrdersByGyroskop(gyroskop.ID)  (ok: err == nil)
CloserOrdersOf(c, ok) ==
    /\ c \in BagToSet(closers)
    /\ c.at = "orders"
    /\ closers' = IF ok
          THEN Replace(c, [c EXCEPT !.at = "close",
                                    !.sid = Deref(c.ptr).id,
                                    !.snap = GetOrdersByGyroskop(orders, Deref(c.ptr).id)])
          ELSE closers (-) SetToBag({c})
    /\ UNCHANGED <<call, shown, now, steps, db, orders, nextMsg, cache, pc, handled, loadRows, loadNow,
                   loadVar, tickPc, tickRows, tickNow, scanned, stopChan, tickVar, summaries, reply>>

CloserOrders(ok) == \E c \in BagToSet(closers) : CloserOrdersOf(c, ok)

\* a closeGyroskop that drops the cache entry although CloseGyroskop failed
CloserCloseOfEvicting(c, ok) ==
    /\ c \in BagToSet(closers)
    /\ c.at = "close"
    /\ IF ok
       THEN /\ db' = CloseGyroskop(db, Deref(c.ptr).id)
            /\ closers' = Replace(c, [c EXCEPT !.at = "evict"])
            /\ cache' = cache
       ELSE /\ db' = db
            /\ closers' = closers (-) SetToBag({c})
            /\ cache' = [cache EXCEPT ![Deref(c.ptr).chat] = NilPtr]
    /\ UNCHANGED <<call, shown, now, steps, orders, nextMsg, pc, handled, loadRows, loadNow,
                   loadVar, tickPc, tickRows, tickNow, scanned, stopChan, tickVar, summaries, reply>>

\* err = b.db.CloseGyroskop(gyroskop.ID)  (ok: err == nil)
CloserCloseOf(c, ok) ==
    /\ c \in BagToSet(closers)
    /\ c.at = "close"
    /\ IF ok
       THEN /\ db' = CloseGyroskop(db, Deref(c.ptr).id)
            /\ closers' = Replace(c, [c EXCEPT !.at = "evict"])
       ELSE /\ db' = db
            /\ closers' = closers (-) SetToBag({c})
    /\ UNCHANGED <<call, shown, now, steps, orders, nextMsg, cache, pc, handled, loadRows, loadNow,
                   loadVar, tickPc, tickRows, tickNow, scanned, stopChan, tickVar, summaries, reply>>

CloserClose(ok) == \E c \in BagToSet(closers) : CloserCloseOf(c, ok)

\* delete(b.activeGyroskops, gyroskop.ChatID); then the final summary goes to
\* gyroskop.ChatID under the deadline of *gyroskop (bot.go:474-475): it is
\* the summary the group of that window receives, whatever orders it lists
CloserEvictOf(c) ==
    /\ c \in BagToSet(closers)
    /\ c.at = "evict"
    /\ cache' = [cache EXCEPT ![Deref(c.ptr).chat] = NilPtr]
    /\ summaries' = [summaries EXCEPT ![Deref(c.ptr).id] = Counted(@)]
    /\ closers' = closers (-) SetToBag({c})
    /\ shown' = FormatOrderSummary(c.snap)
    /\ UNCHANGED <<call, now, steps, db, orders, nextMsg, pc, handled, loadRows, loadNow,
                   loadVar, tickPc, tickRows, tickNow, scanned, stopChan, tickVar, reply>>

CloserEvict == \E c \in BagToSet(closers) : CloserEvictOf(c)

----------------------------------------------------------------------------
(* Stop (bot.go:986-988) and the two places that receive from b.stopChan.   *)

\* close(b.stopChan), called once by main after a signal (main.go:65-76)
Stop ==
    /\ stopChan = "open"
    /\ pc \in {"load", "serve"}
    /\ stopChan' = "closed"
    /\ UNCHANGED <<call, shown, now, steps, db, orders, nextMsg, cache, pc, handled, loadRows,
                   loadNow, loadVar, tickPc, tickRows, tickNow, scanned, tickVar, closers,
                   summaries, reply>>

\* `case <-b.stopChan: return` of backgroundExpiryChecker (bot.go:941-949).
\* The select takes any case that is ready, so a tick of the ticker can still
\* be taken (TickScan) until this case is.
CheckerStop ==
    /\ stopChan = "closed"
    /\ pc \in {"serve", "returned"}
    /\ tickPc = "idle"
    /\ tickPc' = "done"
    /\ UNCHANGED <<call, shown, now, steps, db, orders, nextMsg, cache, pc, handled, loadRows,
                   loadNow, loadVar, tickRows, tickNow, scanned, stopChan, tickVar, closers,
                   summaries, reply>>

\* `for update := range updates { select { case <-b.stopChan: return ...`
\* (bot.go:50-55): Run looks at b.stopChan only once the next update has
\* arrived; that update is dropped
RunReturn ==
    /\ pc = "serve"
    /\ stopChan = "closed"
    /\ pc' = "returned"
    /\ UNCHANGED <<call, shown, now, steps, db, orders, nextMsg, cache, handled, loadRows,
                   loadNow, loadVar, tickPc, tickRows, tickNow, scanned, stopChan, tickVar,
                   closers, summaries, reply>>

----------------------------------------------------------------------------
(* The handlers of the Run loop (bot.go:50-63): one update at a time.       *)

Others == <<now, steps, pc, loadRows, loadNow, loadVar, tickPc, tickRows, tickNow,
            scanned, stopChan, tickVar, closers, call>>

\* the Run loop takes the next update
Serving ==
    /\ pc = "serve"
    /\ stopChan = "open"
    /\ handled < MaxUpdates
    /\ handled' = handled + 1

\* the update is answered with r and nothing else changes
Refuse(r) ==
    /\ reply' = r
    /\ UNCHANGED <<db, orders, nextMsg, cache, summaries, shown>>

Cached(chatID) == cache[chatID].k # "nil"

\* sendGyroskopMessage (bot.go:214-245) for gyroskop g, the store being d:
\* the cache entry, then the message; its id is saved when it was sent
SendGyroskopMessage(d, chatID, g, sent, saved) ==
    /\ cache' = [cache EXCEPT ![chatID] =
                    Obj(IF sent THEN [g EXCEPT !.msg = nextMsg] ELSE g)]
    /\ db' = IF sent /\ saved THEN UpdateGyroskopMessageID(d, g.id, nextMsg) ELSE d
    /\ nextMsg' = IF sent THEN nextMsg + 1 ELSE nextMsg

\* a handleNewGyroskop without the lookup in b.activeGyroskops of bot.go:139-145
HandleNewGyroskopUnchecked(chatID, from, args, sent, saved) ==
    /\ Serving
    /\ LET deadline == ParseDeadline(args, now)
       IN  IF ~deadline.ok THEN Refuse("badTime")
           ELSE /\ Len(db) < MaxWindows
                /\ LET db1 == CreateGyroskop(db, chatID, from, "", <<>>, deadline.t)
                   IN  SendGyroskopMessage(db1, chatID, db1[Len(db1)], sent, saved)
                /\ reply' = "opened" /\ UNCHANGED shown
                /\ UNCHANGED <<orders, summaries>>
    /\ UNCHANGED Others

\* handleNewGyroskop (bot.go:132-163), message.ReplyToMessage == nil; sent and
\* saved are what the transport and the store make of the gyroskop message.
\* The call of bot.go:155 names neither a name nor options.
HandleNewGyroskop(chatID, from, args, sent, saved) ==
    /\ Serving
    /\ IF Cached(chatID) THEN Refuse("conflict")
       ELSE LET deadline == ParseDeadline(args, now)
            IN  IF ~deadline.ok THEN Refuse("badTime")
                ELSE \/ Refuse("storeError")
                     \/ /\ Len(db) < MaxWindows
                        /\ LET db1 == CreateGyroskop(db, chatID, from, "", <<>>, deadline.t)
                           IN  SendGyroskopMessage(db1, chatID, db1[Len(db1)], sent, saved)
                        /\ reply' = "opened" /\ UNCHANGED shown
                        /\ UNCHANGED <<orders, summaries>>
    /\ UNCHANGED Others

\* a handleReopenGyroskop that starts the reopened window without orders
HandleReopenGyroskopEmptied(chatID, from, replyTo, args, sent, saved) ==
    /\ Serving
    /\ \/ Refuse("notGyroskop")
       \/ \E g \in GetGyroskopByMessageID(db, chatID, replyTo) :
             IF g.by # from THEN Refuse("unauthorized")
             ELSE IF Cached(chatID) THEN Refuse("conflict")
             ELSE LET deadline == ParseDeadline(args, now)
                  IN  IF ~deadline.ok THEN Refuse("badTime")
                      ELSE \/ Refuse("storeError")
                           \/ /\ SendGyroskopMessage(
                                     ReopenGyroskop(db, g.id, deadline.t), chatID,
                                     [g EXCEPT !.deadline = deadline.t, !.open = TRUE],
                                     sent, saved)
                              /\ summaries' = [summaries EXCEPT ![g.id] = 0]
                              /\ reply' = "reopened" /\ UNCHANGED shown
                              /\ orders' = [w \in WinIds, u \in Users |->
                                               IF w = g.id THEN NoRow ELSE orders[w, u]]
    /\ UNCHANGED Others

\* handleReopenGyroskop (bot.go:166-211), message.ReplyToMessage.MessageID = replyTo
HandleReopenGyroskop(chatID, from, replyTo, args, sent, saved) ==
    /\ Serving
    /\ \/ Refuse("notGyroskop")           \* the lookup failed
       \/ \E g \in GetGyroskopByMessageID(db, chatID, replyTo) :
             IF g.by # from THEN Refuse("unauthorized")
             ELSE IF Cached(chatID) THEN Refuse("conflict")
             ELSE LET deadline == ParseDeadline(args, now)
                  IN  IF ~deadline.ok THEN Refuse("badTime")
                      ELSE \/ Refuse("storeError")
                           \/ /\ SendGyroskopMessage(
                                     ReopenGyroskop(db, g.id, deadline.t), chatID,
                                     [g EXCEPT !.deadline = deadline.t, !.open = TRUE],
                                     sent, saved)
                              /\ summaries' = [summaries EXCEPT ![g.id] = 0]
                              /\ reply' = "reopened" /\ UNCHANGED shown
                              /\ UNCHANGED orders
    /\ UNCHANGED Others

\* a handleStatus that drops the cache entry of a window past its deadline
HandleStatusEvicting(chatID) ==
    /\ Serving
    /\ IF ~Cached(chatID) THEN Refuse("noActive")
       ELSE \/ Refuse("storeError")
            \/ /\ reply' = "status"
               /\ shown' = FormatCurrentStatus(
                               GetOrdersByGyroskop(orders, Deref(cache[chatID]).id))
               /\ cache' = IF now > Deref(cache[chatID]).deadline
                           THEN [cache EXCEPT ![chatID] = NilPtr] ELSE cache
               /\ UNCHANGED <<db, orders, nextMsg, summaries>>
    /\ UNCHANGED Others

\* handleStatus (bot.go:248-264)
HandleStatus(chatID) ==
    /\ Serving
    /\ IF ~Cached(chatID) THEN Refuse("noActive")
       ELSE \/ Refuse("storeError")
            \/ /\ reply' = "status"
               /\ shown' = FormatCurrentStatus(
                               GetOrdersByGyroskop(orders, Deref(cache[chatID]).id))
               /\ UNCHANGED <<db, orders, nextMsg, cache, summaries>>
    /\ UNCHANGED Others

\* handleCancelOrder (bot.go:299-315)
HandleCancelOrder(chatID, from) ==
    /\ Serving
    /\ IF ~Cached(chatID) THEN Refuse("noActive")
       ELSE \/ Refuse("storeError")
            \/ /\ orders' = RemoveOrder(orders, Deref(cache[chatID]).id, from)
               /\ reply' = "cancelled" /\ UNCHANGED shown
               /\ UNCHANGED <<db, nextMsg, cache, summaries>>
    /\ UNCHANGED Others

\* handleTextMessage (bot.go:318-356)
HandleTextMessage(chatID, from, text) ==
    /\ Serving
    /\ LET quantity == Atoi(TrimSpace(text))
       IN  IF ~quantity.ok THEN Refuse("none")
           ELSE IF quantity.val # 0
                THEN (IF Cached(chatID) THEN Refuse("hint") ELSE Refuse("none"))
           ELSE IF ~Cached(chatID) THEN Refuse("none")
           ELSE IF now > Deref(cache[chatID]).deadline THEN Refuse("expired")
           ELSE \/ Refuse("none")         \* RemoveOrder failed: logged only
                \/ /\ orders' = RemoveOrder(orders, Deref(cache[chatID]).id, from)
                   /\ reply' = "cancelled" /\ UNCHANGED shown
                   /\ UNCHANGED <<db, nextMsg, cache, summaries>>
    /\ UNCHANGED Others

\* a handleEndGyroskop without the comparison with CreatedBy of bot.go:441-444
HandleEndGyroskopByAnyone(chatID, from, replyTo) ==
    /\ Serving
    /\ IF replyTo = 0 THEN Refuse("needReply")
       ELSE IF ~Cached(chatID) THEN Refuse("noActive")
       ELSE LET g == Deref(cache[chatID])
            IN  /\ db' = CloseGyroskop(db, g.id)
                /\ cache' = [cache EXCEPT ![g.chat] = NilPtr]
                /\ summaries' = [summaries EXCEPT ![g.id] = Counted(@)]
                /\ reply' = "summary"
                /\ shown' = FormatOrderSummary(GetOrdersByGyroskop(orders, g.id))
                /\ UNCHANGED <<orders, nextMsg>>
    /\ UNCHANGED Others

\* handleEndGyroskop (bot.go:427-447) with closeGyroskop (bot.go:456-476)
\* called in the handler; replyTo = 0 is message.ReplyToMessage == nil
HandleEndGyroskop(chatID, from, replyTo) ==
    /\ Serving
    /\ IF replyTo = 0 THEN Refuse("needReply")
       ELSE IF ~Cached(chatID) THEN Refuse("noActive")
       ELSE IF Deref(cache[chatID]).by # from THEN Refuse("unauthorized")
       ELSE \/ Refuse("storeError")
            \/ LET g == Deref(cache[chatID])
               IN  /\ db' = CloseGyroskop(db, g.id)
                   /\ cache' = [cache EXCEPT ![g.chat] = NilPtr]
                   /\ summaries' = [summaries EXCEPT ![g.id] = Counted(@)]
                   /\ reply' = "summary"
                   /\ shown' = FormatOrderSummary(GetOrdersByGyroskop(orders, g.id))
                   /\ UNCHANGED <<orders, nextMsg>>
    /\ UNCHANGED Others

\* a handleCancelOrderCallback without the deadline test of bot.go:587-591
HandleCancelOrderCallbackLate(chatID, from) ==
    IF ~Cached(chatID) THEN Refuse("noActive")
    ELSE \/ Refuse("storeError")
         \/ /\ orders' = RemoveOrder(orders, Deref(cache[chatID]).id, from)
            /\ reply' = "cancelled" /\ UNCHANGED shown
            /\ UNCHANGED <<db, nextMsg, cache, summaries>>

\* handleCancelOrderCallback (bot.go:579-604)
HandleCancelOrderCallback(chatID, from) ==
    IF ~Cached(chatID) THEN Refuse("noActive")
    ELSE IF now > Deref(cache[chatID]).deadline THEN Refuse("expired")
    ELSE \/ Refuse("storeError")
         \/ /\ orders' = RemoveOrder(orders, Deref(cache[chatID]).id, from)
            /\ reply' = "cancelled" /\ UNCHANGED shown
            /\ UNCHANGED <<db, nextMsg, cache, summaries>>

\* the quantities handleCallbackQuery stores (bot.go:516-554): the pressed
\* kind takes the quantity, the other kind keeps what the user's order had
NewQuantities(current, from, gyrosType, quantity) ==
    LET currentMeat == IF from \in DOMAIN current THEN current[from][1] ELSE 0
        currentVeggie == IF from \in DOMAIN current THEN current[from][2] ELSE 0
    IN  IF gyrosType = "m" THEN <<quantity, currentVeggie>>
        ELSE IF gyrosType = "v" THEN <<currentMeat, quantity>>
        ELSE <<0, 0>>

\* handleCallbackQuery (bot.go:479-576)
HandleCallbackQuery(chatID, from, data) ==
    /\ Serving
    /\ IF Len(data) < 2 \/ data[1] # "g" THEN Refuse("none")
       ELSE IF data = <<"g", "0">> THEN HandleCancelOrderCallback(chatID, from)
       ELSE IF Len(data) < 3 THEN Refuse("none")
       ELSE LET quantity == Atoi(SubSeq(data, 3, Len(data)))
            IN  IF ~quantity.ok THEN Refuse("none")
                ELSE IF ~Cached(chatID) THEN Refuse("noActive")
                ELSE IF now > Deref(cache[chatID]).deadline THEN Refuse("expired")
                ELSE \/ Refuse("storeError")
                     \/ LET id == Deref(cache[chatID]).id
                            new == NewQuantities(GetOrdersByGyroskop(orders, id), from,
                                                 data[2], quantity.val)
                        IN  /\ orders' = AddOrUpdateOrder(orders, id, from, new[1], new[2])
                            /\ reply' = "ordered" /\ UNCHANGED shown
                            /\ UNCHANGED <<db, nextMsg, cache, summaries>>
    /\ UNCHANGED Others

\* a handleMessage without the test of the chat type of bot.go:69-72
HandleMessageAnyChat(chatID, from, kind) ==
    CASE kind = "gyroskop" -> HandleNewGyroskop(chatID, from, <<>>, TRUE, TRUE)
      [] kind = "status" -> HandleStatus(chatID)
      [] kind = "ende" -> HandleEndGyroskop(chatID, from, OtherMsg)
      [] kind = "stornieren" -> HandleCancelOrder(chatID, from)
      [] kind = "text" -> HandleTextMessage(chatID, from, <<"0">>)

\* handleMessage (bot.go:67-79) with handleCommand (bot.go:82-99), for a
\* message of a chat of any type: the command /gyroskop, /status, /ende (as a
\* reply) or /stornieren, or the text "0"
HandleMessage(chatID, from, kind) ==
    IF chatID \notin Groups
    THEN Serving /\ Refuse("groupsOnly") /\ UNCHANGED Others
    ELSE CASE kind = "gyroskop" -> HandleNewGyroskop(chatID, from, <<>>, TRUE, TRUE)
           [] kind = "status" -> HandleStatus(chatID)
           [] kind = "ende" -> HandleEndGyroskop(chatID, from, OtherMsg)
           [] kind = "stornieren" -> HandleCancelOrder(chatID, from)
           [] kind = "text" -> HandleTextMessage(chatID, from, <<"0">>)

----------------------------------------------------------------------------
(* The inputs *)

\* what a message is: one of four commands, or a text
MessageKinds == {"gyroskop", "status", "ende", "stornieren", "text"}

\* a name and an option, no time: "Pizza, Salami"
PizzaSalami == <<"P", "i", "z", "z", "a", ",", " ", "S", "a", "l", "a", "m", "i">>

\* deadlines that name a time or a duration but no valid one: "0min", "25:00"
MalformedDeadlines == {<<"0", "m", "i", "n">>, <<"2", "5", ":", "0", "0">>}

\* command arguments: none, "30min", "abc", "Pizza, Salami", "0min", "25:00"
Args == {<<>>, <<"3", "0", "m", "i", "n">>, <<"a", "b", "c">>, PizzaSalami}
           \cup MalformedDeadlines

\* text messages: "0", " 3", "2 f", "2 fleisch"
TwoFleisch == <<"2", " ", "f", "l", "e", "i", "s", "c", "h">>
Texts == {<<"0">>, <<" ", "3">>, <<"2", " ", "f">>, TwoFleisch}

\* callback data naming an option by its index and a quantity: "g0_2"
IndexedPayload == <<"g", "0", "_", "2">>

\* callback data: the bot's own buttons g0, gm1, gv2, noop, and data that no
\* button of bot.go:743-782 carries: gm11, gm-1, gx1, g0_2
Payloads == {<<"g", "0">>, <<"g", "m", "1">>, <<"g", "v", "2">>, <<"n", "o", "o", "p">>,
             <<"g", "m", "1", "1">>, <<"g", "m", "-", "1">>, <<"g", "x", "1">>,
             IndexedPayload}

\* callback data that names no option (gx1) or carries no quantity of 0..10
\* (gm-1, gm11)
MalformedPayloads == {<<"g", "x", "1">>, <<"g", "m", "-", "1">>, <<"g", "m", "1", "1">>}

\* the messages of a chat a command can be a reply to (0: no reply)
ReplyTargets == (1..(nextMsg - 1)) \cup {OtherMsg}

\* deadlines a user writes: durations in several spellings, times of day,
\* and texts that are neither
DeadlineInputs ==
    {<<"5", "m", "i", "n">>, <<"5", "m">>, <<"2", "h">>, <<"1", "h", "o", "u", "r">>,
     <<"3", "h", "o", "u", "r", "s">>, <<" ", "4", "5", "m", "i", "n", " ">>,
     <<"0", "m", "i", "n">>, <<"0", "h">>, <<"0", "0", "m">>,
     <<"5", "M", "I", "N">>, <<"5", "M">>, <<"2", "H">>, <<"1", "H", "o", "u", "r">>,
     <<"0", "M", "i", "n">>,
     <<"1", "7", ":", "0", "0">>, <<"9", ":", "0", "5">>, <<"0", "9", ":", "0", "5">>,
     <<"0", ":", "0", "0">>, <<"2", "3", ":", "5", "9">>,
     <<"2", "5", ":", "0", "0">>, <<"1", "7", ":", "6", "0">>, <<"7", ":", "5">>,
     <<"5", "m", "i", "n", "s">>, <<"-", "5", "m", "i", "n">>, <<"a", "b", "c">>, <<>>}

\* the instants at which a deadline is parsed: around 0:00, 9:05, 17:00 and
\* 23:59 of one day, and on the day after
ParseTimes == {0, 1, 544, 545, 546, 1019, 1020, 1021, 1438, 1439, 1440, 2460}

\* food options a window may carry
Fleisch == <<"F", "l", "e", "i", "s", "c", "h">>
Fleischkaese == <<"F", "l", "e", "i", "s", "c", "h", "k", "ä", "s", "e">>
Vegetarisch == <<"V", "e", "g", "e", "t", "a", "r", "i", "s", "c", "h">>
Salami == <<"S", "a", "l", "a", "m", "i">>

OptionNames == {Fleisch, Fleischkaese, Vegetarisch, Salami}

\* the option lists: up to MaxOptions different options, in every order
OptionLists ==
    {l \in UNION {[1..n -> OptionNames] : n \in 0..MaxOptions} :
        \A i, j \in 1..Len(l) : i # j => l[i] # l[j]}

\* what a user writes for an option: "fleisch", " Fleisch ", "FLEISCH", "fl",
\* "veg", "fleischkäse", "salami", "sl", "x", "", "  "
OptionInputs ==
    {<<"f", "l", "e", "i", "s", "c", "h">>,
     <<" ", "F", "l", "e", "i", "s", "c", "h", " ">>,
     <<"F", "L", "E", "I", "S", "C", "H">>,
     <<"f", "l">>,
     <<"v", "e", "g">>,
     <<"f", "l", "e", "i", "s", "c", "h", "k", "ä", "s", "e">>,
     <<"s", "a", "l", "a", "m", "i">>,
     <<"s", "l">>,
     <<"x">>,
     <<>>,
     <<" ", " ">>}

\* the outcomes of sending the gyroskop message and of saving its id
Outcomes == {<<TRUE, TRUE>>, <<TRUE, FALSE>>, <<FALSE, FALSE>>}

Next ==
    \/ Advance
    \/ \E ok \in BOOLEAN : LoadQuery(ok)
    \/ LoadRow
    \/ \E ok \in BOOLEAN : TickScan(ok)
    \/ TickRow
    \/ \E ok \in BOOLEAN : CloserOrders(ok)
    \/ \E ok \in BOOLEAN : CloserClose(ok)
    \/ CloserEvict
    \/ \E c \in Groups, u \in Users, a \in Args, o \in Outcomes :
          HandleNewGyroskop(c, u, a, o[1], o[2])
    \/ \E c \in Groups, u \in Users, m \in ReplyTargets, a \in Args, o \in Outcomes :
          HandleReopenGyroskop(c, u, m, a, o[1], o[2])
    \/ \E c \in Groups : HandleStatus(c)
    \/ \E c \in Groups, u \in Users : HandleCancelOrder(c, u)
    \/ \E c \in Groups, u \in Users, t \in Texts : HandleTextMessage(c, u, t)
    \/ \E c \in Groups, u \in Users, m \in ReplyTargets \cup {0} : HandleEndGyroskop(c, u, m)
    \/ \E c \in Groups, u \in Users, d \in Payloads : HandleCallbackQuery(c, u, d)

Spec == Init /\ [][Next]_vars

----------------------------------------------------------------------------
(* The life of the windows: a fresh store, the commands that open, reopen   *)
(* and end windows, the expiry checker and its goroutines.  Every message   *)
(* is delivered; the argument is absent or unparsable.                      *)

\* the bot is started for the first time: the tables are empty
FreshStore == Init /\ Len(db) = 0

LifeArgs == {<<>>, <<"a", "b", "c">>, PizzaSalami} \cup MalformedDeadlines

NextLife ==
    \/ Advance
    \/ \E ok \in BOOLEAN : LoadQuery(ok)
    \/ \E ok \in BOOLEAN : TickScan(ok)
    \/ TickRow
    \/ \E ok \in BOOLEAN : CloserOrders(ok)
    \/ \E ok \in BOOLEAN : CloserClose(ok)
    \/ CloserEvict
    \/ \E c \in Groups, u \in Users, a \in LifeArgs : HandleNewGyroskop(c, u, a, TRUE, TRUE)
    \/ \E c \in Groups, u \in Users, m \in ReplyTargets, a \in LifeArgs :
          HandleReopenGyroskop(c, u, m, a, TRUE, TRUE)
    \/ \E c \in Groups, u \in Users, m \in ReplyTargets \cup {0} : HandleEndGyroskop(c, u, m)

SpecLife == FreshStore /\ [][NextLife]_vars

----------------------------------------------------------------------------
(* Ordering: a fresh store, windows opened with the default deadline, and   *)
(* the updates that place, change and cancel orders.                        *)

NextOrders ==
    \/ Advance
    \/ \E ok \in BOOLEAN : LoadQuery(ok)
    \/ \E ok \in BOOLEAN : TickScan(ok)
    \/ TickRow
    \/ \E ok \in BOOLEAN : CloserOrders(ok)
    \/ \E ok \in BOOLEAN : CloserClose(ok)
    \/ CloserEvict
    \/ \E c \in Groups, u \in Users : HandleNewGyroskop(c, u, <<>>, TRUE, TRUE)
    \/ \E c \in Groups : HandleStatus(c)
    \/ \E c \in Groups, u \in Users : HandleCancelOrder(c, u)
    \/ \E c \in Groups, u \in Users, t \in Texts : HandleTextMessage(c, u, t)
    \/ \E c \in Groups, u \in Users, d \in Payloads : HandleCallbackQuery(c, u, d)

SpecOrders == FreshStore /\ [][NextOrders]_vars

----------------------------------------------------------------------------
(* Status: the bot serves a window that user 1 has just opened in group 1    *)
(* with the default deadline; orders are placed, changed and cancelled and   *)
(* the status is asked for.  The updates are counted from here on.           *)

WindowOpen ==
    /\ now = 0
    /\ steps = 0
    /\ db = UpdateGyroskopMessageID(
                CreateGyroskop(<<>>, 1, 1, "", <<>>, DefaultMinutes), 1, 1)
    /\ nextMsg = 2
    /\ handled = 0
    /\ orders = [w \in WinIds, u \in Users |-> NoRow]
    /\ cache = [g \in Chats |-> IF g = 1 THEN Obj(db[1]) ELSE NilPtr]
    /\ pc = "serve"
    /\ loadRows = {}
    /\ loadNow = 0
    /\ loadVar = NoG
    /\ tickPc = "idle"
    /\ tickRows = {}
    /\ tickNow = 0
    /\ scanned = {}
    /\ stopChan = "open"
    /\ tickVar = NoG
    /\ closers = EmptyBag
    /\ summaries = [w \in WinIds |-> 0]
    /\ reply = "opened"
    /\ call = NoCall
    /\ shown = NoReport

NextStatus ==
    \/ Advance
    \/ \E c \in Groups : HandleStatus(c)
    \/ \E c \in Groups, u \in Users : HandleCancelOrder(c, u)
    \/ \E c \in Groups, u \in Users, t \in Texts : HandleTextMessage(c, u, t)
    \/ \E c \in Groups, u \in Users, d \in Payloads : HandleCallbackQuery(c, u, d)

SpecStatus == WindowOpen /\ [][NextStatus]_vars

\* The reopening of a window that has orders.  One window is open (as in
\* WindowOpen) and each user has left it no row, an order, or a cancelled
\* order (the row RemoveOrder leaves).
RowsLeft == {NoRow, [has |-> TRUE, m |-> 1, v |-> 0], [has |-> TRUE, m |-> 0, v |-> 2],
             [has |-> TRUE, m |-> 0, v |-> 0]}

WindowWithOrders ==
    /\ now = 0
    /\ steps = 0
    /\ db = UpdateGyroskopMessageID(
                CreateGyroskop(<<>>, 1, 1, "", <<>>, DefaultMinutes), 1, 1)
    /\ nextMsg = 2
    /\ handled = 0
    /\ \E r \in [Users -> RowsLeft] :
          orders = [w \in WinIds, u \in Users |-> IF w = 1 THEN r[u] ELSE NoRow]
    /\ cache = [g \in Chats |-> IF g = 1 THEN Obj(db[1]) ELSE NilPtr]
    /\ pc = "serve"
    /\ loadRows = {}
    /\ loadNow = 0
    /\ loadVar = NoG
    /\ tickPc = "idle"
    /\ tickRows = {}
    /\ tickNow = 0
    /\ scanned = {}
    /\ stopChan = "open"
    /\ tickVar = NoG
    /\ closers = EmptyBag
    /\ summaries = [w \in WinIds |-> 0]
    /\ reply = "opened"
    /\ call = NoCall
    /\ shown = NoReport

NextReopen ==
    \/ Advance
    \/ \E ok \in BOOLEAN : TickScan(ok)
    \/ TickRow
    \/ \E ok \in BOOLEAN : CloserOrders(ok)
    \/ \E ok \in BOOLEAN : CloserClose(ok)
    \/ CloserEvict
    \/ \E c \in Groups, u \in Users : HandleCancelOrder(c, u)
    \/ \E c \in Groups, u \in Users : HandleCallbackQuery(c, u, <<"g", "m", "1">>)
    \/ \E c \in Groups, u \in Users, m \in ReplyTargets : HandleEndGyroskop(c, u, m)
    \/ \E c \in Groups, u \in Users, m \in ReplyTargets :
          HandleReopenGyroskop(c, u, m, <<>>, TRUE, TRUE)

SpecReopen == WindowWithOrders /\ [][NextReopen]_vars

\* Shutdown: one open window, the expiry checker with its goroutines, /status
\* and /ende, and Stop.  The checker and the goroutines run whenever they
\* can; nothing makes an update arrive.
NextStop ==
    \/ Advance
    \/ \E ok \in BOOLEAN : TickScan(ok)
    \/ TickRow
    \/ CloserOrders(TRUE)
    \/ CloserClose(TRUE)
    \/ CloserEvict
    \/ \E c \in Groups : HandleStatus(c)
    \/ \E c \in Groups, u \in Users, m \in ReplyTargets : HandleEndGyroskop(c, u, m)
    \/ Stop
    \/ CheckerStop
    \/ RunReturn

\* the select of the checker picks among its ready cases at random: the stop
\* case, ready at every select from Stop on, is not passed over for ever
FairStop ==
    /\ SF_vars(CheckerStop)
    /\ WF_vars(TickRow)
    /\ WF_vars(CloserOrders(TRUE))
    /\ WF_vars(CloserClose(TRUE))
    /\ WF_vars(CloserEvict)

SpecStop == WindowOpen /\ [][NextStop]_vars /\ FairStop

----------------------------------------------------------------------------
(* Chats: messages arrive from the groups and from a private chat, and the   *)
(* buttons of the groups' windows are pressed.                               *)

NextChats ==
    \/ Advance
    \/ \E ok \in BOOLEAN : LoadQuery(ok)
    \/ \E c \in Chats, u \in Users, kind \in MessageKinds : HandleMessage(c, u, kind)
    \/ \E c \in Groups, u \in Users : HandleCallbackQuery(c, u, <<"g", "m", "1">>)

SpecChats == FreshStore /\ [][NextChats]_vars

----------------------------------------------------------------------------
(* Expiry: startup over the store an earlier run left, the expiry checker   *)
(* and manual ends, with the clock advancing, the checker ticking and the   *)
(* goroutines running.  The queries of the open windows may fail, but not   *)
(* for ever; the store calls of closeGyroskop succeed.                      *)

NextExpiry ==
    \/ Advance
    \/ \E ok \in BOOLEAN : LoadQuery(ok)
    \/ LoadRow
    \/ \E ok \in BOOLEAN : TickScan(ok)
    \/ TickRow
    \/ CloserOrders(TRUE)
    \/ CloserClose(TRUE)
    \/ CloserEvict
    \/ \E c \in Groups, u \in Users, m \in ReplyTargets : HandleEndGyroskop(c, u, m)

\* the rows an earlier run may have left, and the goroutines that can run
\* over them (no order is placed under NextExpiry)
PriorRowSet ==
    UNION {{Renumber(PriorRows(kinds, 1))[i] : i \in 1..Len(PriorRows(kinds, 1))} :
              kinds \in [Groups -> PriorKinds]}

ClosersAt(stage) ==
    [ptr : {LoadPtr, TickPtr} \cup {Obj(g) : g \in PriorRowSet},
     at : {stage},
     sid : 0..MaxWindows,
     snap : {EmptyOrders}]

\* The clock advances, the loops run on, the ticker fires and its query
\* does not fail for ever, and every goroutine is scheduled.
Fairness ==
    /\ WF_vars(Advance)
    /\ WF_vars(\E ok \in BOOLEAN : LoadQuery(ok))
    /\ WF_vars(LoadRow)
    /\ SF_vars(TickScan(TRUE))
    /\ WF_vars(TickRow)
    /\ \A c \in ClosersAt("orders") : WF_vars(CloserOrdersOf(c, TRUE))
    /\ \A c \in ClosersAt("close") : WF_vars(CloserCloseOf(c, TRUE))
    /\ \A c \in ClosersAt("evict") : WF_vars(CloserEvictOf(c))

SpecExpiry == Init /\ [][NextExpiry]_vars /\ Fairness

\* The closes with a store that may fail: startup, the ticks, the goroutines
\* (each store call succeeds or fails) and /ende.
NextClose ==
    \/ Advance
    \/ \E ok \in BOOLEAN : LoadQuery(ok)
    \/ LoadRow
    \/ \E ok \in BOOLEAN : TickScan(ok)
    \/ TickRow
    \/ \E ok \in BOOLEAN : CloserOrders(ok)
    \/ \E ok \in BOOLEAN : CloserClose(ok)
    \/ CloserEvict
    \/ \E c \in Groups, u \in Users, m \in ReplyTargets : HandleEndGyroskop(c, u, m)

SpecClose == Init /\ [][NextClose]_vars

\* parseDeadline applied to an input at an instant
ParseAt(input, t) ==
    /\ call = NoCall
    /\ call' = [NoCall EXCEPT !.fn = "parseDeadline",
                              !.input = input,
                              !.at = t,
                              !.ok = ParseDeadline(input, t).ok,
                              !.t = ParseDeadline(input, t).t,
                              !.err = ParseDeadline(input, t).err]
    /\ UNCHANGED <<now, steps, db, orders, nextMsg, cache, pc, handled, loadRows,
                   loadNow, loadVar, tickPc, tickRows, tickNow, scanned, stopChan, tickVar, closers,
                   summaries, reply, shown>>

NextParse == \E input \in DeadlineInputs, t \in ParseTimes : ParseAt(input, t)

SpecParse == FreshStore /\ [][NextParse]_vars

\* display names and quantities of the rows handed to AddOrUpdateOrder
DisplayNames == {"anna", "bert"}
RowQuantities == {<<1, 0>>, <<0, 2>>}

\* AddOrUpdateOrder (database.go:231-250) applied to the table row by row,
\* which starts empty and is kept in call.out
AddOrder(gyroskopID, userID, name, quantities) ==
    /\ call.fn \in {"none", "AddOrUpdateOrder"}
    /\ Len(call.out) < MaxRows
    /\ LET row == [gyroskop |-> gyroskopID, user |-> userID, name |-> name,
                   m |-> quantities[1], v |-> quantities[2]]
       IN  call' = [NoCall EXCEPT !.fn = "AddOrUpdateOrder",
                                  !.input = <<row>>,
                                  !.out = InsertOrUpdateRow(call.out, row)]
    /\ UNCHANGED <<now, steps, db, orders, nextMsg, cache, pc, handled, loadRows,
                   loadNow, loadVar, tickPc, tickRows, tickNow, scanned, stopChan, tickVar, closers,
                   summaries, reply, shown>>

NextTable ==
    \E w \in WinIds, u \in Users, name \in DisplayNames, q \in RowQuantities :
       AddOrder(w, u, name, q)

SpecTable == FreshStore /\ [][NextTable]_vars

\* the option matcher applied to an input and an option list
MatchOption(input, options) ==
    /\ call = NoCall
    /\ call' = [NoCall EXCEPT !.fn = "FuzzyMatchOption",
                              !.input = input,
                              !.options = options,
                              !.ok = FuzzyMatchOption(input, options).found,
                              !.out = FuzzyMatchOption(input, options).option]
    /\ UNCHANGED <<now, steps, db, orders, nextMsg, cache, pc, handled, loadRows,
                   loadNow, loadVar, tickPc, tickRows, tickNow, scanned, stopChan, tickVar, closers,
                   summaries, reply, shown>>

NextMatch == \E input \in OptionInputs, options \in OptionLists : MatchOption(input, options)

SpecMatch == FreshStore /\ [][NextMatch]_vars

\* the cache holds window w under some group
InCache(w) == \E g \in Groups : cache[g].k # "nil" /\ Deref(cache[g]).id = w

\* C6: every window that is open in the store when its deadline has passed
\* is eventually closed in the store, out of the cache, and summarised.
ExpiredEventuallyClosed ==
    \A w \in WinIds :
       (w \in DOMAIN db /\ db[w].open /\ db[w].deadline < now)
          ~> (w \in DOMAIN db /\ ~db[w].open /\ ~InCache(w) /\ summaries[w] > 0)

----------------------------------------------------------------------------
(* Properties of the life of the windows, under SpecLife *)

\* the rows of group g that the store flags open
OpenRows(g) == {i \in DOMAIN db : db[i].chat = g /\ db[i].open}

\* C1: after any sequence and interleaving of create, reopen, manual end and
\* scheduler ticks, every group has at most one window flagged open in the
\* store (the cache, a map keyed by the group, holds at most one by itself).
OneOpenWindowPerGroup == \A g \in Groups : Cardinality(OpenRows(g)) <= 1

\* C2: closing is idempotent: however a manual end and the closes started by
\* the expiry checker race on a window, its final summary is sent at most
\* once between two openings of the window.
SummarySentOnce == \A w \in WinIds : summaries[w] <= 1

\* what a refused update leaves alone: the windows, the cache, the message
\* linkage, the orders and the summaries sent
Unchanged == UNCHANGED <<db, cache, nextMsg, orders, summaries>>

\* C5: the end command and the reopen command of a user who is not the
\* creator of the window (for the end command the group's cached window, for
\* the reopen command the window of the message replied to) are answered
\* with the creator-only refusal and leave windows, cache, message linkage,
\* orders and summaries unchanged.  A failed lookup of the replied-to message
\* is answered as "no gyroskop message" instead.
NonCreatorRefused ==
    [][handled' # handled =>
          \A c \in Groups, u \in Users, m \in ReplyTargets :
             /\ (/\ cache[c].k # "nil"
                 /\ Deref(cache[c]).by # u
                 /\ HandleEndGyroskop(c, u, m))
                   => (reply' = "unauthorized" /\ Unchanged)
             /\ (/\ GetGyroskopByMessageID(db, c, m) # {}
                 /\ \A g \in GetGyroskopByMessageID(db, c, m) : g.by # u
                 /\ \E a \in Args, o \in Outcomes :
                       HandleReopenGyroskop(c, u, m, a, o[1], o[2]))
                   => (reply' \in {"unauthorized", "notGyroskop"} /\ Unchanged)]_vars

\* a non-creator was refused while the window he addressed stays open, cached
\* and without a summary
NonCreatorRefusedSeen ==
    /\ reply = "unauthorized"
    /\ \E c \in Groups :
          /\ cache[c].k = "obj"
          /\ db[cache[c].g.id].open
          /\ summaries[cache[c].g.id] = 0

ReopenRestoresWindow ==
    [][handled' # handled =>
          \A c \in Groups, u \in Users, m \in ReplyTargets, a \in Args :
          \A g \in GetGyroskopByMessageID(db, c, m) :
             (/\ g.by = u
              /\ ~g.open
              /\ cache[c].k = "nil"
              /\ ParseDeadline(a, now).ok
              /\ reply' \notin {"storeError", "notGyroskop"}
              /\ \E o \in Outcomes : HandleReopenGyroskop(c, u, m, a, o[1], o[2]))
                => /\ reply' = "reopened" /\ UNCHANGED shown
                   /\ Len(db') = Len(db)
                   /\ db'[g.id].open
                   /\ db'[g.id].by = g.by
                   /\ db'[g.id].chat = c
                   /\ db'[g.id].deadline = ParseDeadline(a, now).t
                   /\ cache'[c].k = "obj"
                   /\ cache'[c].g.id = g.id
                   /\ cache'[c].g.by = g.by
                   /\ cache'[c].g.open
                   /\ cache'[c].g.deadline = ParseDeadline(a, now).t]_vars

\* a window that was closed and summarised is open again under its id, with a
\* deadline parsed at the time of the reopen
ReopenRestoresWindowSeen ==
    /\ reply = "reopened"
    /\ \E c \in Groups :
          /\ cache[c].k = "obj"
          /\ db[cache[c].g.id].open
          /\ db[cache[c].g.id].deadline = now + DefaultMinutes
          /\ now > 0
          /\ Len(db) = 1

\* C11: when the creator replies with the creation command to the message of
\* the window the group has in the cache (the same window), the argument
\* being a deadline, the request is accepted unless the store fails: it is
\* not answered as a conflict, and the window is open in the store and in
\* the cache with the newly parsed deadline.
EditOpenWindowAccepted ==
    [][handled' # handled =>
          \A c \in Groups, u \in Users, m \in ReplyTargets, a \in Args :
          \A g \in GetGyroskopByMessageID(db, c, m) :
             (/\ g.by = u
              /\ cache[c].k # "nil"
              /\ Deref(cache[c]).id = g.id
              /\ ParseDeadline(a, now).ok
              /\ reply' \notin {"storeError", "notGyroskop"}
              /\ \E o \in Outcomes : HandleReopenGyroskop(c, u, m, a, o[1], o[2]))
                => /\ reply' # "conflict"
                   /\ db'[g.id].open
                   /\ db'[g.id].deadline = ParseDeadline(a, now).t
                   /\ cache'[c].k # "nil"
                   /\ cache'[c].g.id = g.id
                   /\ cache'[c].g.deadline = ParseDeadline(a, now).t]_vars

\* C20: a creation or a reopening whose argument names a deadline that is
\* malformed ("0min", "25:00") is answered with an error and changes nothing:
\* no row is added, no row is reopened or given another deadline, the cache
\* stays as it was; when the request reaches the parsing of the deadline the
\* error is the one about the time format.
MalformedDeadlineAborts ==
    [][handled' # handled =>
          \A c \in Groups, u \in Users, a \in MalformedDeadlines :
             /\ HandleNewGyroskop(c, u, a, TRUE, TRUE)
                   => /\ reply' \in {"badTime", "conflict"}
                      /\ ~Cached(c) => reply' = "badTime"
                      /\ db' = db /\ cache' = cache /\ nextMsg' = nextMsg
                      /\ orders' = orders /\ summaries' = summaries
             /\ \A m \in ReplyTargets :
                   HandleReopenGyroskop(c, u, m, a, TRUE, TRUE)
                      => /\ reply' \in {"badTime", "conflict", "notGyroskop", "unauthorized"}
                         /\ db' = db /\ cache' = cache /\ nextMsg' = nextMsg
                         /\ orders' = orders /\ summaries' = summaries]_vars

\* a request was refused for its deadline while the group's window was closed
\* and not cached, and the window is still closed
MalformedDeadlineAbortsSeen ==
    /\ reply = "badTime"
    /\ \E c \in Groups :
          /\ ~Cached(c)
          /\ \E i \in 1..Len(db) : db[i].chat = c /\ ~db[i].open

\* C16: an end command sent as a reply to a message other than the message of
\* the group's window closes nothing: the store, the cached window and the
\* summaries sent stay as they were, also when the sender created the window.
EndOnlyByReplyToWindow ==
    [][handled' # handled =>
          \A c \in Groups, u \in Users, m \in ReplyTargets :
             (/\ Cached(c)
              /\ Deref(cache[c]).msg # m
              /\ HandleEndGyroskop(c, u, m))
                => /\ db' = db
                   /\ cache' = cache
                   /\ summaries' = summaries]_vars

\* C15: a creation command without arguments, sent at time T0 in a group for
\* which the bot holds no window, stores an open window of that group, created
\* by the requester, with deadline T0 + 15 minutes, name "Gyros" and options
\* Fleisch and Vegetarisch, and caches that window for the group (unless the
\* store fails).
CreateDefaultWindow ==
    [][handled' # handled =>
          \A c \in Groups, u \in Users :
             (/\ cache[c].k = "nil"
              /\ reply' # "storeError"
              /\ \E o \in Outcomes : HandleNewGyroskop(c, u, <<>>, o[1], o[2]))
                => LET g == db'[Len(db')]
                   IN  /\ Len(db') = Len(db) + 1
                       /\ g.open /\ g.chat = c /\ g.by = u
                       /\ g.deadline = now + DefaultMinutes
                       /\ g.name = "Gyros"
                       /\ g.options = <<"Fleisch", "Vegetarisch">>
                       /\ cache'[c].k = "obj"
                       /\ cache'[c].g.id = g.id
                       /\ cache'[c].g.open
                       /\ cache'[c].g.by = u
                       /\ cache'[c].g.deadline = now + DefaultMinutes
                       /\ cache'[c].g.name = "Gyros"
                       /\ cache'[c].g.options = <<"Fleisch", "Vegetarisch">>]_vars

\* a default window just created: open, cached, due in 15 minutes
CreateDefaultWindowSeen ==
    /\ reply = "opened"
    /\ \E c \in Groups :
          /\ cache[c].k = "obj"
          /\ cache[c].g.deadline = now + DefaultMinutes
          /\ cache[c].g.name = "Gyros"
          /\ db[cache[c].g.id].open
          /\ db[cache[c].g.id].options = <<"Fleisch", "Vegetarisch">>

\* C14: a creation command whose argument holds a name and options but no
\* time ("Pizza, Salami"), sent in a group without a cached window, opens a
\* window with the default deadline now + 15 minutes instead of being
\* rejected as an invalid time format (unless the store fails).
CreateWithoutTimeUsesDefault ==
    [][handled' # handled =>
          \A c \in Groups, u \in Users :
             (/\ cache[c].k = "nil"
              /\ reply' # "storeError"
              /\ \E o \in Outcomes : HandleNewGyroskop(c, u, PizzaSalami, o[1], o[2]))
                => /\ reply' = "opened" /\ UNCHANGED shown
                   /\ Len(db') = Len(db) + 1
                   /\ db'[Len(db')].open
                   /\ db'[Len(db')].chat = c
                   /\ db'[Len(db')].deadline = now + DefaultMinutes]_vars

\* the rows of window id with a quantity other than 0, as user -> <<meat, veggie>>
NonZeroOrders(id) ==
    [u \in {x \in Users : /\ orders[id, x].has
                          /\ (orders[id, x].m # 0 \/ orders[id, x].v # 0)}
        |-> <<orders[id, u].m, orders[id, u].v>>]

\* C21: in every status with a totals line, the total of each kind is the sum of that kind's
\* quantity over the orders of the window with a quantity other than 0, and
\* the grand total is the sum of the two; the grand total of every status and
\* final summary is the sum of its two totals.
TotalsMatchOrders ==
    [][handled' # handled =>
          \A c \in Groups :
             (reply' = "status" /\ ~shown'.noOrders /\ HandleStatus(c))
                => LET rows == NonZeroOrders(Deref(cache[c]).id)
                   IN  /\ shown'.totalMeat = SumMeat(rows, DOMAIN rows)
                       /\ shown'.totalVeggie = SumVeggie(rows, DOMAIN rows)
                       /\ shown'.totalGyros = shown'.totalMeat + shown'.totalVeggie]_vars

\* C22: a cancellation that is accepted (the text "0", the cancel command
\* or the cancel button) leaves the user without any quantity in the window;
\* a status lists no user whose quantities are all 0, and when no user of the
\* window has a quantity other than 0 it is the no-orders message.
CancelledLeavesStatus ==
    [][handled' # handled =>
          \A c \in Groups :
             /\ \A u \in Users :
                   (/\ reply' = "cancelled"
                    /\ \/ HandleTextMessage(c, u, <<"0">>)
                       \/ HandleCancelOrder(c, u)
                       \/ HandleCallbackQuery(c, u, <<"g", "0">>))
                      => /\ orders'[Deref(cache[c]).id, u].m = 0
                         /\ orders'[Deref(cache[c]).id, u].v = 0
             /\ (reply' = "status" /\ HandleStatus(c))
                   => LET id == Deref(cache[c]).id
                      IN  /\ \A u \in Users :
                                (orders[id, u].m = 0 /\ orders[id, u].v = 0)
                                   => u \notin DOMAIN shown'.lines
                          /\ (\A u \in Users : orders[id, u].m = 0 /\ orders[id, u].v = 0)
                                => shown'.noOrders]_vars

\* the status is the no-orders message although window 1 has a row: the row
\* of a user who ordered and cancelled
CancelledLeavesStatusSeen ==
    /\ shown.kind = "status"
    /\ shown.noOrders
    /\ \E u \in Users : orders[1, u].has /\ orders[1, u].m = 0 /\ orders[1, u].v = 0

\* C23: when a close started by the expiry checker marks its window closed,
\* the orders it has read for the final summary are the orders stored for
\* that window at this moment, whatever updates were handled in between.
SummaryIsLastSnapshot ==
    [][\A c \in BagToSet(closers) :
          CloserCloseOf(c, TRUE) => c.snap = GetOrdersByGyroskop(orders, c.sid)]_vars

\* C25: while a close started by the expiry checker is between its steps (it
\* has read the orders of a window and has not yet removed the cache entry
\* and sent the summary), no update is handled that changes that window's
\* orders, a window of its group or the cache entry of its group.
CloseNotInterleaved ==
    [][handled' # handled =>
          \A cl \in BagToSet(closers) :
             cl.at # "orders"
                => LET g == Deref(cl.ptr).chat
                   IN  /\ g \in Groups => cache'[g] = cache[g]
                       /\ \A u \in Users :
                             cl.sid \in WinIds => orders'[cl.sid, u] = orders[cl.sid, u]
                       /\ Len(db') = Len(db) \/ db'[Len(db')].chat # g
                       /\ \A i \in 1..Len(db) : db[i].chat = g => db'[i] = db[i]]_vars

\* C26: an update that makes the bot call the store (a cancellation by the
\* text "0", by the cancel command or by the cancel button, an order by a
\* button, a status) is answered: with the result when the store call
\* succeeds and with an error message when it fails, never with nothing.
StoreFailureVisible ==
    [][handled' # handled =>
          \A c \in Groups, u \in Users :
             Cached(c)
                => /\ HandleCancelOrder(c, u) => reply' \in {"cancelled", "storeError"}
                   /\ HandleStatus(c) => reply' \in {"status", "storeError"}
                   /\ now <= Deref(cache[c]).deadline
                         => /\ HandleTextMessage(c, u, <<"0">>)
                                  => reply' \in {"cancelled", "storeError"}
                            /\ HandleCallbackQuery(c, u, <<"g", "0">>)
                                  => reply' \in {"cancelled", "storeError"}
                            /\ HandleCallbackQuery(c, u, <<"g", "m", "1">>)
                                  => reply' \in {"ordered", "storeError"}]_vars

\* C27: in a cached window that has not expired, callback data g0_2 (option
\* index 0, Fleisch, quantity 2) sets the pressing user's Fleisch quantity to
\* 2, and callback data g0 leaves the user without any quantity (unless the
\* store fails).
IndexedPayloadSetsQuantity ==
    [][handled' # handled =>
          \A c \in Groups, u \in Users :
             (/\ Cached(c)
              /\ now <= Deref(cache[c]).deadline
              /\ reply' # "storeError")
                => LET id == Deref(cache[c]).id
                   IN  /\ HandleCallbackQuery(c, u, IndexedPayload)
                             => orders'[id, u].has /\ orders'[id, u].m = 2
                       /\ HandleCallbackQuery(c, u, <<"g", "0">>)
                             => orders'[id, u].m = 0 /\ orders'[id, u].v = 0]_vars

----------------------------------------------------------------------------
(* Properties of the chat types, under SpecChats *)

\* C28: a message from a chat that is not a group is answered with the
\* groups-only notice and changes nothing: no window row, no order, no cache
\* entry, no summary.
PrivateChatChangesNothing ==
    [][handled' # handled =>
          \A u \in Users, kind \in MessageKinds :
             HandleMessage(PrivateChat, u, kind)
                => /\ reply' = "groupsOnly"
                   /\ db' = db
                   /\ orders' = orders
                   /\ cache' = cache
                   /\ nextMsg' = nextMsg
                   /\ summaries' = summaries
                   /\ shown' = shown]_vars

\* the groups-only notice was sent while a group had an open window with an
\* order
PrivateChatChangesNothingSeen ==
    /\ reply = "groupsOnly"
    /\ \E c \in Groups :
          /\ Cached(c)
          /\ db[Deref(cache[c]).id].open
          /\ \E u \in Users : orders[Deref(cache[c]).id, u].m = 1

----------------------------------------------------------------------------
(* The orders table by itself, under SpecTable *)

\* C24: the orders table never holds two rows for the same window and user;
\* a submission of a user who has a row in the window puts its display name
\* and quantities into that row and adds no row, a submission of a user who
\* has none adds exactly one row, and no other row changes.
OneRowPerUser ==
    [][\A w \in WinIds, u \in Users, name \in DisplayNames, q \in RowQuantities :
          AddOrder(w, u, name, q)
             => LET old == call.out
                    new == call'.out
                    Mine(t) == {i \in 1..Len(t) : t[i].gyroskop = w /\ t[i].user = u}
                IN  /\ Cardinality(Mine(new)) = 1
                    /\ \A i \in Mine(new) :
                          new[i].name = name /\ new[i].m = q[1] /\ new[i].v = q[2]
                    /\ Len(new) = IF Mine(old) = {} THEN Len(old) + 1 ELSE Len(old)
                    /\ \A i \in 1..Len(old) : i \notin Mine(old) => new[i] = old[i]]_vars

\* a user's second submission to a window has replaced the first: the table
\* holds one row, with the later name and quantities
OneRowPerUserSeen ==
    /\ call.fn = "AddOrUpdateOrder"
    /\ Len(call.out) = 1
    /\ call.out[1].name = "bert"
    /\ call.out[1].m = 0
    /\ call.out[1].v = 2
    /\ call.input[1] = call.out[1]

----------------------------------------------------------------------------
(* parseDeadline by itself, under SpecParse *)

\* C18: an input made of a number n and one of the units min, m, h, hour,
\* hours, the unit written in any letter case, parsed at an instant, gives
\* that instant plus n minutes (min, m) or plus n hours (h, hour, hours)
\* when n > 0, and the invalid-duration error when n = 0.
DurationAnyCase ==
    call.fn = "parseDeadline" =>
        LET s == TrimSpace(call.input)
            n == DigitPrefix(s)
            val == DecVal(SubSeq(s, 1, n))
            unit == Fold(SubSeq(s, n + 1, Len(s)))
        IN  (n > 0 /\ unit \in MinuteUnits \cup HourUnits)
               => IF val = 0 THEN ~call.ok /\ call.err = "invalid duration"
                  ELSE /\ call.ok
                       /\ call.t = call.at + (IF unit \in MinuteUnits THEN val
                                              ELSE val * MinutesPerHour)

\* C19: an H:MM or HH:MM input parsed at an instant gives an instant with
\* that hour and minute of the civil day which lies strictly after the instant
\* of parsing: today's instant at that time when it is still ahead, and the
\* instant one day later when it is equal to or before the instant of parsing.
ClockStrictlyAfter ==
    call.fn = "parseDeadline" =>
        LET clock == ClockMatch(TrimSpace(call.input))
            today == (call.at - (call.at % MinutesPerDay))
                        + clock.hour * MinutesPerHour + clock.min
        IN  clock.valid
               => /\ call.ok
                  /\ call.t % MinutesPerDay = clock.hour * MinutesPerHour + clock.min
                  /\ call.t > call.at
                  /\ call.t = IF today <= call.at THEN today + MinutesPerDay ELSE today

----------------------------------------------------------------------------
(* The option matcher by itself, under SpecMatch *)

\* C17: when the trimmed input equals an option of the list up to letter
\* case, FuzzyMatchOption returns that option, wherever it stands in the list
\* and whatever other options of the list the input also matches.
ExactMatchFirst ==
    call.fn = "FuzzyMatchOption" =>
        \A i \in 1..Len(call.options) :
           Fold(TrimSpace(call.input)) = Fold(call.options[i])
              => call.ok /\ call.out = call.options[i]

----------------------------------------------------------------------------
(* Properties of ordering, under SpecOrders *)

\* callback data that asks for a quantity or for the cancellation
Selects(d) ==
    \/ d = <<"g", "0">>
    \/ Len(d) >= 3 /\ d[1] = "g" /\ Atoi(SubSeq(d, 3, Len(d))).ok

UntilDeadline(c, selects) ==
    /\ (orders' # orders \/ reply' \in {"ordered", "cancelled"})
          => (cache[c].k # "nil" /\ now <= Deref(cache[c]).deadline)
    /\ (cache[c].k # "nil" /\ now > Deref(cache[c]).deadline)
          => /\ orders' = orders
             /\ reply' \in {"expired", "hint", "none"}
             /\ selects => reply' = "expired"

CancelOnlyUntilDeadline ==
    [][\A c \in Groups, u \in Users :
          (/\ handled' # handled
           /\ cache[c].k # "nil"
           /\ now > Deref(cache[c]).deadline
           /\ \/ HandleCancelOrder(c, u)
              \/ HandleTextMessage(c, u, <<"0">>)
              \/ HandleCallbackQuery(c, u, <<"g", "0">>))
             => orders' = orders]_vars

\* C7: a submission of one user writes that user's row of the window with the
\* quantity submitted and leaves every other row as it was, so that of two
\* users submitting for the same window each keeps his own row, in whatever
\* order the Run loop takes their updates.
SubmissionsKeptApart ==
    [][handled' # handled =>
          \A c \in Groups, u \in Users, d \in Payloads :
          (reply' = "ordered" /\ HandleCallbackQuery(c, u, d))
             => LET id == Deref(cache[c]).id
                    n == Atoi(SubSeq(d, 3, Len(d))).val
                IN  /\ \A w \in WinIds, x \in Users :
                          (w # id \/ x # u) => orders'[w, x] = orders[w, x]
                    /\ orders'[id, u].has
                    /\ d[2] = "m" => orders'[id, u].m = n
                    /\ d[2] = "v" => orders'[id, u].v = n]_vars

\* two users have submitted for the same window and each row holds what its
\* user submitted
SubmissionsKeptApartSeen ==
    \E w \in WinIds :
       /\ orders[w, 1].has /\ orders[w, 1].m = 1 /\ orders[w, 1].v = 0
       /\ orders[w, 2].has /\ orders[w, 2].m = 0 /\ orders[w, 2].v = 2

\* C12: an accepted button press for one kind (gm<n> or gv<n>) replaces that
\* kind's quantity in the row of the user who pressed: the user's quantity of
\* the other kind, and every other row, are the same after it as before.
ButtonReplacesOneKind ==
    [][handled' # handled =>
          \A c \in Groups, u \in Users, d \in Payloads :
          (/\ reply' = "ordered" /\ UNCHANGED shown
           /\ d[2] \in {"m", "v"}
           /\ HandleCallbackQuery(c, u, d))
             => LET id == Deref(cache[c]).id
                IN  /\ \A w \in WinIds, x \in Users :
                          (w # id \/ x # u) => orders'[w, x] = orders[w, x]
                    /\ d[2] = "m" => orders'[id, u].v = orders[id, u].v
                    /\ d[2] = "v" => orders'[id, u].m = orders[id, u].m]_vars

\* C13: the text "2 fleisch", sent by a user in a group whose cached window
\* has not passed its deadline, stores 2 as that user's quantity of meat
\* (Fleisch) for the window, unless the store fails.
FreeTextOrderStored ==
    [][handled' # handled =>
          \A c \in Groups, u \in Users :
             (/\ cache[c].k # "nil"
              /\ now <= Deref(cache[c]).deadline
              /\ reply' # "storeError"
              /\ HandleTextMessage(c, u, TwoFleisch))
                => /\ orders'[Deref(cache[c]).id, u].has
                   /\ orders'[Deref(cache[c]).id, u].m = 2]_vars

\* C8: every stored quantity is in 0..10, whatever callback data and text
\* messages were sent.
QuantitiesInRange ==
    \A w \in WinIds, u \in Users : orders[w, u].m \in 0..10 /\ orders[w, u].v \in 0..10

----------------------------------------------------------------------------
\* C29: when the startup pass over the open windows ends, every window whose
\* deadline had passed is closed or has a running close that is for that very
\* window, and every other window is in the cache under its own group, the
\* entry holding that window's own id, creator and deadline.
StartupPassSettlesEveryWindow ==
    [][pc = "load" /\ pc' = "serve" =>
          LET after(p) == CASE p.k = "load" -> loadVar'
                            [] p.k = "tick" -> tickVar'
                            [] OTHER -> p.g
          IN  \A i \in 1..Len(db) :
                 IF db[i].deadline < loadNow
                 THEN db'[i].open =>
                         \E c \in BagToSet(closers') : after(c.ptr).id = db[i].id
                 ELSE /\ cache'[db[i].chat].k # "nil"
                      /\ after(cache'[db[i].chat]).id = db[i].id
                      /\ after(cache'[db[i].chat]).by = db[i].by
                      /\ after(cache'[db[i].chat]).deadline = db[i].deadline]_vars

\* C30: within one tick of the expiry checker the second loop starts no close
\* for a window the first loop of that tick has already started one for,
\* whatever the goroutines have done in between.
OneClosePerTick ==
    [][\A r \in tickRows :
          tickRows' = tickRows \ {r} /\ Running' > Running => r.id \notin scanned]_vars

\* C31: a close whose load of the orders or whose CloseGyroskop fails is
\* given up: neither the store nor the cache changes and no summary is sent,
\* so that the window is still cached and open for a later tick or /ende.
\* A goroutine that fails leaves the bag before its "evict" stage; a failing
\* /ende is answered with the failure message.
CloseFailureAborts ==
    [][/\ \A c \in BagToSet(closers) :
             c.at # "evict" /\ closers' = closers (-) SetToBag({c})
                => /\ db' = db /\ cache' = cache /\ orders' = orders
                   /\ summaries' = summaries /\ shown' = shown
       /\ handled' # handled /\ reply' = "storeError"
             => /\ db' = db /\ cache' = cache /\ orders' = orders
                /\ summaries' = summaries /\ shown' = shown]_vars

\* the creator's /ende has failed on the only window, which is expired: the
\* window is still open, cached and without a summary
CloseFailureAbortsSeen ==
    /\ reply = "storeError"
    /\ Len(db) = 1
    /\ db[1].open /\ db[1].deadline < now
    /\ Cached(db[1].chat) /\ Deref(cache[db[1].chat]).id = 1
    /\ summaries[1] = 0

CloseAuthorization ==
    [][/\ handled' # handled =>
             \A c \in Groups, u \in Users, m \in ReplyTargets :
                HandleEndGyroskop(c, u, m) /\ (db' # db \/ reply' = "summary")
                   => Deref(cache[c]).by = u
       /\ \A ok \in BOOLEAN :
             TickScan(ok) =>
                \A g \in Groups :
                   Cached(g) /\ Deref(cache[g]).deadline < now
                      => CopiesIn(NewCloser(cache[g]), closers')
                            > CopiesIn(NewCloser(cache[g]), closers)
       /\ \A c \in BagToSet(closers) :
             CloserCloseOf(c, TRUE) => ~db'[Deref(c.ptr).id].open]_vars

\* the creator has just ended a window by /ende, and a goroutine of the
\* expiry checker has marked closed a window that another user created
CloseAuthorizationSeen ==
    /\ reply = "summary"
    /\ \E c \in BagToSet(closers) :
          /\ c.at = "evict"
          /\ c.ptr.k = "obj"
          /\ c.ptr.g.by = 2
          /\ c.ptr.g.deadline < now
          /\ ~db[c.ptr.g.id].open
          /\ \E w \in DOMAIN db : w # c.ptr.g.id /\ ~db[w].open /\ summaries[w] = 1

\* C34: callback data that names no valid option or carries no valid quantity
\* changes no order: the stored rows are the same after it as before.
MalformedPayloadIgnored ==
    [][handled' # handled =>
          \A c \in Groups, u \in Users, d \in MalformedPayloads :
             HandleCallbackQuery(c, u, d) => orders' = orders]_vars

\* C35: FuzzyMatchOption answers ("", false) when the trimmed input is empty
\* or the list of options is empty, and whenever it answers found, the option
\* it returns is an element of the list, spelled as in the list.
MatchIsListedOption ==
    call.fn = "FuzzyMatchOption" =>
       /\ TrimSpace(call.input) = <<>> \/ call.options = <<>>
             => ~call.ok /\ call.out = <<>>
       /\ call.ok => \E i \in 1..Len(call.options) : call.out = call.options[i]
       /\ ~call.ok => call.out = <<>>

\* "FLEISCH" was matched and answered in the spelling of the list
MatchIsListedOptionSeen ==
    /\ call.fn = "FuzzyMatchOption"
    /\ call.input = <<"F", "L", "E", "I", "S", "C", "H">>
    /\ call.ok
    /\ call.out = Fleisch

\* C36: once CloseGyroskop(id) has succeeded on an open window, neither
\* GetActiveGyroskop of its group nor GetAllActiveGyroskops returns that
\* window, and GetAllActiveGyroskops returns the windows flagged open, of all
\* groups, and nothing else.
ClosedNotActive ==
    [][\A id \in DOMAIN db :
          db[id].open /\ db' = CloseGyroskop(db, id)
             => /\ \A g \in GetActiveGyroskop(db', db[id].chat) : g.id # id
                /\ \A g \in GetAllActiveGyroskops(db') : g.id # id
                /\ \A i \in DOMAIN db' :
                      db'[i].open <=> \E g \in GetAllActiveGyroskops(db') : g = db'[i]
                /\ \A g \in GetAllActiveGyroskops(db') : g.id \in DOMAIN db']_vars

\* one window was closed while the window of the other group is open: the
\* open one is all that GetAllActiveGyroskops returns
ClosedNotActiveSeen ==
    /\ Len(db) = 2
    /\ ~db[1].open /\ db[2].open /\ db[1].chat # db[2].chat
    /\ GetAllActiveGyroskops(db) = {db[2]}
    /\ GetActiveGyroskop(db, db[1].chat) = {}
    /\ summaries[1] = 1

\* C37: the end of a close of window W (the removal from the cache, by a
\* goroutine or by /ende) leaves the cache entry of every other window as it
\* is, also when the close runs late or a second time, after W was closed and
\* another window was opened in W's group.
CloseEvictsOnlyItsWindow ==
    [][/\ \A c \in BagToSet(closers) :
             CloserEvictOf(c) =>
                \A g \in Groups :
                   Cached(g) /\ Deref(cache[g]).id # Deref(c.ptr).id
                      => cache'[g] = cache[g]
       /\ handled' # handled =>
             \A ch \in Groups, u \in Users, m \in ReplyTargets :
                HandleEndGyroskop(ch, u, m) /\ reply' = "summary" =>
                   \A g \in Groups :
                      Cached(g) /\ Deref(cache[g]).id # Deref(cache[ch]).id
                         => cache'[g] = cache[g]]_vars

\* C38: no order row of a window changes while the window is flagged closed
\* in the store (closed before the step and after it), whichever handler runs.
ClosedWindowOrdersFrozen ==
    [][\A w \in DOMAIN db :
          ~db[w].open /\ ~db'[w].open
             => \A u \in Users : orders'[w, u] = orders[w, u]]_vars

\* C39: a successful reopen leaves every order row as it is stored: the
\* orders the store returns for the window right after the reopen are those
\* it returned for the closed window right before, and a user whose order was
\* cancelled (a row without quantities) is not among them.  (That no row
\* changes while the window is closed is ClosedWindowOrdersFrozen.)
ReopenKeepsOrders ==
    [][handled' # handled =>
          \A c \in Groups, u \in Users, m \in ReplyTargets :
             HandleReopenGyroskop(c, u, m, <<>>, TRUE, TRUE) /\ reply' = "reopened"
                => /\ orders' = orders
                   /\ \A g \in GetGyroskopByMessageID(db, c, m) :
                         /\ GetOrdersByGyroskop(orders', g.id)
                               = GetOrdersByGyroskop(orders, g.id)
                         /\ \A x \in Users :
                               orders[g.id, x] = [has |-> TRUE, m |-> 0, v |-> 0]
                                  => x \notin DOMAIN GetOrdersByGyroskop(orders', g.id)]_vars

\* the window was closed and reopened; the order of user 1 is returned, the
\* cancelled order of user 2 is not
ReopenKeepsOrdersSeen ==
    /\ reply = "reopened"
    /\ db[1].open /\ db[1].deadline > DefaultMinutes
    /\ Cached(1) /\ Deref(cache[1]).id = 1
    /\ orders[1, 2] = [has |-> TRUE, m |-> 0, v |-> 0]
    /\ GetOrdersByGyroskop(orders, 1) = (1 :> <<1, 0>>)

\* C40: once Stop has been called, the expiry checker terminates and Run
\* returns, whether or not another update arrives.
StopEndsRun == (stopChan = "closed") ~> (tickPc = "done" /\ pc = "returned")

====
